---------------------------- MODULE Spec2Model ----------------------------
(***************************************************************************)
(* A model of the ps_rpg_engine renderer: the GPU context of               *)
(* src/renderer.rs (Renderer::new / resize / render), the ECS render       *)
(* systems of src/renderer/model.rs and src/renderer/post_process.rs, and  *)
(* the texture manager of src/renderer/texture_manager.rs.                 *)
(*                                                                         *)
(* Four specifications share the variables:                                *)
(*   Spec          the GPU context and the frame (resize, render)          *)
(*   SpecTextures  the texture manager and the files it loads from         *)
(*   SpecMain      the event loop of src/main.rs                           *)
(*   SpecCamera    the camera matrices of src/renderer/camera.rs           *)
(***************************************************************************)
EXTENDS Naturals, Integers, Sequences, FiniteSets, TLC

VARIABLES
    \* ---- Renderer (src/renderer.rs)
    surface_config,   \* Renderer.surface_config: [width, height, format, present_mode, alpha_mode]
    configureCalls,   \* number of surface.configure(..) calls made so far
    startupSize,      \* window.inner_size() read by Renderer::new
    resizeLog,        \* history: the arguments of every resize call, oldest first
    \* ---- the frame
    frames,           \* number of frames started
    lastFrame,        \* the most recent frame: its driver, GPU operations in order, result
    fieldChanged,     \* field.is_changed() as the model system will next see it
    panicked,         \* the process has panicked (an unwrap on an Err)
    resources,        \* per render system, its Local<..> resource bundle and
                      \* how many times from_world has built one
    post_process_texture, \* what the intermediate target holds: the draws
                      \* stored in it, oldest first, each [pass, frame]
    intermediate_target, \* the texture behind post_process_texture: the
                      \* size and format it was created with, and how many
                      \* times one was created
    \* ---- TextureManager (src/renderer/texture_manager.rs)
    manifest,         \* TextureManager.manifest: name -> path
    textures,         \* TextureManager.textures: name -> wgpu::Texture (an id)
    files,            \* the file system: path -> what is at that path
    images,           \* path -> [width, height] of the image a decode of the
                      \* file at that path gives
    gpuTextures,      \* the textures device.create_texture has made
    calls,            \* number of get_texture calls made so far
    last,             \* the most recent get_texture call and what it did
    stats,            \* history: per name, what all calls so far did
    field_background, \* the FieldBackground::new call made, and what it did
    \* ---- main (src/main.rs)
    viewport,         \* the renderer::Viewport resource: [width, height, changed]
    control_flow,     \* *control_flow of the event loop closure
    redraw_requested, \* window.request_redraw() was called and not yet served
    sizeEvents,       \* history: the sizes of the window's Resized and
                      \* ScaleFactorChanged events, oldest first
    redrawEvents,     \* history: number of RedrawRequested events for the window
    clearedEvents,    \* history: a MainEventsCleared event was delivered and
                      \* no RedrawRequested event of the window since
    closeEvents,      \* history: a CloseRequested event of the window was
                      \* delivered
    \* ---- cameras (src/renderer/camera.rs)
    camera,           \* the camera get_matrix is called on
    camera_matrix,    \* what get_matrix returned: a product of matrices
    \* ---- the scene description (renderer::field::Field::from_gltf)
    scene,            \* the node tree of the scene file: per node its parent
                      \* and the kind of camera it carries
    from_gltf_result, \* the view-projection the camera extraction gave
    \* ---- the model system's camera (src/renderer/model.rs)
    view_proj,        \* field.view_proj, the Field resource's matrix
    camera_buffer     \* what ModelRendererResource.camera_buffer holds

rendererVars == <<surface_config, configureCalls, startupSize, resizeLog,
                  frames, lastFrame, fieldChanged, panicked, resources,
                  post_process_texture, intermediate_target>>
textureVars  == <<manifest, textures, files, images, gpuTextures, calls, last,
                  stats, field_background>>
mainVars     == <<viewport, control_flow, redraw_requested, sizeEvents,
                  redrawEvents, clearedEvents, closeEvents>>
cameraVars   == <<camera, camera_matrix, scene, from_gltf_result, view_proj,
                  camera_buffer>>
vars         == <<rendererVars, textureVars, mainVars, cameraVars>>

----------------------------------------------------------------------------
(* Bounds of the model *)

\* Number of resize calls explored.
MaxResizes == 2
\* Number of frames explored.
MaxFrames == 2
\* Number of get_texture calls explored.
MaxCalls == 4
\* The number of nodes of a scene description.
MaxNodes == 4

----------------------------------------------------------------------------
(* Program constants *)

SCREEN_WIDTH == 640
SCREEN_HEIGHT == 800

\* The window dimensions explored: the degenerate 0 and two real ones.
Dims == {0, 600, 800}
Sizes == [width : Dims, height : Dims]
\* The sizes a window can have when Renderer::new configures the surface.
StartupSizes == {[width |-> 800, height |-> 600], [width |-> 600, height |-> 600]}

\* x with its last element, for a non-empty sequence
Last(s) == s[Len(s)]

----------------------------------------------------------------------------
(* Renderer::new and Renderer::resize                                       *)

\* The surface configuration Renderer::new builds from the window's size.
\* surface.configure panics on a zero-sized configuration, so a constructed
\* Renderer has a non-degenerate one.
\* PostProcessRenderer::new: the intermediate target is created, once, from
\* a descriptor of SCREEN_WIDTH x SCREEN_HEIGHT.
PostProcessRenderer_new_texture ==
    [ width |-> SCREEN_WIDTH, height |-> SCREEN_HEIGHT,
      format |-> "Rgba8UnormSrgb", created |-> 1 ]

NewSurfaceConfig(size) ==
    [ width        |-> size.width,
      height       |-> size.height,
      format       |-> "supported_formats[0]",
      present_mode |-> "Fifo",
      alpha_mode   |-> "Auto" ]

\* A variant of resize whose guard tests the axes with "or".
resize_EitherAxis(self, new_size) ==
    IF new_size.width > 0 \/ new_size.height > 0
    THEN [ self EXCEPT !.surface_config = [@ EXCEPT
                                              !.width  = new_size.width,
                                              !.height = new_size.height],
                       !.configureCalls = @ + 1 ]
    ELSE self

\* A variant of resize that reconfigures the surface whatever the size.
resize_AlwaysConfigure(self, new_size) ==
    IF new_size.width > 0 /\ new_size.height > 0
    THEN [ self EXCEPT !.surface_config = [@ EXCEPT
                                              !.width  = new_size.width,
                                              !.height = new_size.height],
                       !.configureCalls = @ + 1 ]
    ELSE [ self EXCEPT !.configureCalls = @ + 1 ]

\* A variant of resize that builds a fresh configuration of the new size,
\* with the default present mode.
resize_FreshConfig(self, new_size) ==
    IF new_size.width > 0 /\ new_size.height > 0
    THEN [ self EXCEPT !.surface_config = [ NewSurfaceConfig(new_size) EXCEPT
                                                !.present_mode = "Immediate" ],
                       !.configureCalls = @ + 1 ]
    ELSE self

\* A variant of resize that also recreates the intermediate target at the
\* new size.
resize_RecreateTarget(self, new_size) ==
    IF new_size.width > 0 /\ new_size.height > 0
    THEN [ self EXCEPT !.surface_config = [@ EXCEPT
                                              !.width  = new_size.width,
                                              !.height = new_size.height],
                       !.configureCalls = @ + 1,
                       !.intermediate_target = [@ EXCEPT
                                              !.width  = new_size.width,
                                              !.height = new_size.height,
                                              !.created = @ + 1] ]
    ELSE self

\* Renderer::resize: self is [surface_config, configureCalls,
\* intermediate_target].
resize(self, new_size) ==
    IF new_size.width > 0 /\ new_size.height > 0
    THEN [ self EXCEPT !.surface_config = [@ EXCEPT
                                              !.width  = new_size.width,
                                              !.height = new_size.height],
                       !.configureCalls = @ + 1 ]
    ELSE self

----------------------------------------------------------------------------
(* The frame: GPU operations in the order the code issues them              *)

\* What surface.get_current_texture() can return: Ok or a wgpu::SurfaceError.
AcquireResults == {"Ok", "Timeout", "Outdated", "Lost", "OutOfMemory"}

Submit(pass)      == [op |-> "submit", what |-> pass]
WriteBuffer(buf)  == [op |-> "write_buffer", what |-> buf]
Acquire(res)      == [op |-> "get_current_texture", what |-> res]
Present           == [op |-> "present", what |-> "surface_texture"]

\* FieldBackgroundRenderer::render: one command buffer, submitted.
FieldBackgroundRenderer_render ==
    [ ops |-> << Submit("Background") >>, panic |-> FALSE ]

\* PostProcessRenderer::render of src/renderer.rs: one command buffer, submitted.
PostProcessRenderer_render == << Submit("PostProcess") >>

\* A variant of Renderer::render that presents before the post-process draw.
Renderer_render_PresentEarly(acquired) ==
    LET head == << Submit("Main") >> \o FieldBackgroundRenderer_render.ops
                 \o << Acquire(acquired) >>
    IN  IF acquired # "Ok"
        THEN [ ops |-> head, result |-> acquired ]
        ELSE [ ops |-> head \o << Present >> \o PostProcessRenderer_render,
               result |-> "Ok" ]

\* Renderer::render: the clear-only "Main Encoder" pass, the background, the
\* acquisition (returning the SurfaceError with `?`), the post-process draw,
\* present.
Renderer_render(acquired) ==
    LET head == << Submit("Main") >> \o FieldBackgroundRenderer_render.ops
                 \o << Acquire(acquired) >>
    IN  IF acquired # "Ok"
        THEN [ ops |-> head, result |-> acquired ]
        ELSE [ ops |-> head \o PostProcessRenderer_render \o << Present >>,
               result |-> "Ok" ]

\* A variant of model::render that uploads the camera in every frame.
model_render_AlwaysWrite(changed) ==
    [ ops |-> << WriteBuffer("camera_buffer"), Submit("Model") >>,
      panic |-> FALSE ]

\* A variant of model::render that uploads the camera after its draw.
model_render_WriteAfterDraw(changed) ==
    [ ops |-> << Submit("Model") >>
              \o (IF changed THEN << WriteBuffer("camera_buffer") >> ELSE << >>),
      panic |-> FALSE ]

\* model::render (the ECS system): re-upload the camera if the field changed,
\* then one command buffer, submitted.
model_render(changed) ==
    [ ops |-> (IF changed THEN << WriteBuffer("camera_buffer") >> ELSE << >>)
              \o << Submit("Model") >>,
      panic |-> FALSE ]

\* A variant of post_process::render that presents before it submits its draw.
post_process_render_PresentFirst(acquired) ==
    IF acquired # "Ok"
    THEN [ ops |-> << Acquire(acquired) >>, panic |-> TRUE ]
    ELSE [ ops |-> << Acquire(acquired), Present, Submit("PostProcess") >>,
           panic |-> FALSE ]

\* post_process::render (the ECS system): get_current_texture().unwrap(), the
\* draw, submit, present.
post_process_render(acquired) ==
    IF acquired # "Ok"
    THEN [ ops |-> << Acquire(acquired) >>, panic |-> TRUE ]
    ELSE [ ops |-> << Acquire(acquired), Submit("PostProcess"), Present >>,
           panic |-> FALSE ]

\* The systems that take a Local<..> resource bundle: model::render a
\* Local<ModelRendererResource>, post_process::render a
\* Local<PostProcessResource>.
LocalResources == {"model", "post_process"}

NoBundle == [ built_in_frame |-> 0, target_format |-> "none" ]

\* The format of the intermediate (post-process) texture, as its descriptor
\* gives it.
PostProcessTextureFormat == "Rgba8UnormSrgb"

\* RenderContext.post_process_texture_format: the format of
\* RenderContext.post_process_texture.
RenderContext_post_process_texture_format == PostProcessTextureFormat

\* A variant in which the model pipeline targets the surface format.
PipelineTarget_ModelToSurface(system, context) ==
    CASE system = "post_process" -> context.surface_config.format
      [] system = "model" -> context.surface_config.format
      [] system = "field_background" ->
             RenderContext_post_process_texture_format

\* The colour target format each system's pipeline is built with: the model
\* pipeline with context.post_process_texture_format, the post-process
\* pipeline with context.surface_config.format, the background pipeline with
\* the format of the intermediate target.
PipelineTarget(system, context) ==
    CASE system = "post_process" -> context.surface_config.format
      [] system = "model" -> RenderContext_post_process_texture_format
      [] system = "field_background" ->
             RenderContext_post_process_texture_format

NoResource == [ bundle |-> NoBundle, constructed |-> 0 ]

\* FromWorld::from_world: the pipeline, bind-group layout, buffers and sampler
\* of a pass, built from the RenderContext.
from_world(system, context, frame) ==
    [ built_in_frame |-> frame,
      target_format  |-> PipelineTarget(system, context) ]

\* A variant of the Local<..> parameter that builds its value in every frame.
Local_get_Rebuild(local, system, context, frame) ==
    [ bundle |-> from_world(system, context, frame),
      constructed |-> local.constructed + 1 ]

\* The Local<T: FromWorld> parameter of a system: the value is built by
\* from_world when the stage first initializes the system, and that value
\* is handed to every run.
Local_get(local, system, context, frame) ==
    IF local.bundle = NoBundle
    THEN [ bundle |-> from_world(system, context, frame),
           constructed |-> local.constructed + 1 ]
    ELSE local

\* The order in which the render stage runs its systems (renderer::init builds
\* the system set).
RenderSystems == << "field_background", "model", "post_process" >>

RunSystem(system, changed, acquired) ==
    CASE system = "field_background" -> FieldBackgroundRenderer_render
      [] system = "model"            -> model_render(changed)
      [] system = "post_process"     -> post_process_render(acquired)

\* render_schedule.run(&mut world): the systems one after the other on one
\* thread; a panic in one ends the run.
RECURSIVE RunFrom(_, _, _)
RunFrom(i, changed, acquired) ==
    IF i > Len(RenderSystems)
    THEN [ ops |-> << >>, panic |-> FALSE, ran |-> {} ]
    ELSE LET r == RunSystem(RenderSystems[i], changed, acquired)
         IN  IF r.panic
             THEN [ ops |-> r.ops, panic |-> TRUE, ran |-> {RenderSystems[i]} ]
             ELSE LET rest == RunFrom(i + 1, changed, acquired)
                  IN  [ ops   |-> r.ops \o rest.ops,
                        panic |-> rest.panic,
                        ran   |-> {RenderSystems[i]} \cup rest.ran ]

render_schedule_run(changed, acquired) == RunFrom(1, changed, acquired)

----------------------------------------------------------------------------
(* The intermediate target: what each render pass leaves in it              *)

Drawn(pass, frame) == [pass |-> pass, frame |-> frame]

\* A render pass on a colour attachment with store: true. LoadOp::Clear
\* starts from the clear colour, LoadOp::Load from what the target holds.
RenderPass(target, load, draws) ==
    (IF load = "Clear" THEN << >> ELSE target) \o draws

\* The "Main Encoder" pass of Renderer::render: a clear and no draw.
Main_pass(target, frame) == RenderPass(target, "Clear", << >>)

\* A variant of the background pass that loads the target.
FieldBackgroundRenderer_pass_Load(target, frame) ==
    RenderPass(target, "Load", << Drawn("Background", frame) >>)

\* The render pass of FieldBackgroundRenderer::render:
\* LoadOp::Clear(TRANSPARENT), then the full-screen quad.
FieldBackgroundRenderer_pass(target, frame) ==
    RenderPass(target, "Clear", << Drawn("Background", frame) >>)

\* The render pass of model::render: LoadOp::Load, then the model.
model_pass(target, frame) ==
    RenderPass(target, "Load", << Drawn("Model", frame) >>)

\* The intermediate target after the first n operations of a frame.
RECURSIVE TargetAfter(_, _, _, _)
TargetAfter(target, ops, frame, n) ==
    IF n = 0 THEN target
    ELSE LET before == TargetAfter(target, ops, frame, n - 1)
         IN  CASE ops[n] = Submit("Main") -> Main_pass(before, frame)
               [] ops[n] = Submit("Background") ->
                      FieldBackgroundRenderer_pass(before, frame)
               [] ops[n] = Submit("Model") -> model_pass(before, frame)
               [] OTHER -> before

\* What the post-process draw of a frame samples: the intermediate target as
\* the operations before its submit left it.
Sampled(target, ops, frame) ==
    IF \E i \in 1..Len(ops) : ops[i] = Submit("PostProcess")
    THEN LET i == CHOOSE j \in 1..Len(ops) : ops[j] = Submit("PostProcess")
         IN  TargetAfter(target, ops, frame, i - 1)
    ELSE << >>

----------------------------------------------------------------------------
(* Pipelines and the attachments they are bound to                          *)

\* The colour target formats of the pipelines Renderer::new builds: the
\* post-process pipeline with surface_config.format, the background pipeline
\* and the main pipeline with post_process_renderer.get_texture_format().
Renderer_new_pipelines(config) ==
    [ Main        |-> PostProcessTextureFormat,
      Background  |-> PostProcessTextureFormat,
      PostProcess |-> config.format ]

\* The colour attachment a pass renders into: the post-process pass the
\* view of the acquired surface image, every other pass a view of the
\* intermediate texture.
PassAttachment(pass) ==
    IF pass = "PostProcess" THEN "surface" ELSE "post_process_texture"

\* The format of an attachment: a surface image has the format the surface
\* is configured with.
AttachmentFormat(attachment, config) ==
    IF attachment = "surface" THEN config.format ELSE PostProcessTextureFormat

\* For each render pass of a frame, in order: the pipeline's target format
\* and the attachment the pass binds it to.
Bindings(ops, pipelines, config) ==
    LET passes == SelectSeq(ops, LAMBDA o : o.op = "submit")
    IN  [ i \in 1..Len(passes) |->
            [ pass              |-> passes[i].what,
              pipeline_format   |-> pipelines[passes[i].what],
              attachment        |-> PassAttachment(passes[i].what),
              attachment_format |->
                  AttachmentFormat(PassAttachment(passes[i].what), config) ] ]

NoSize == [width |-> 0, height |-> 0]

\* No camera buffer: the model system's resource bundle is not built, or
\* the frame has no Model draw.
NoBuffer == << [m |-> "none", args |-> << >>, inv |-> FALSE] >>

NoFrame == [ driver |-> "none", ops |-> << >>, result |-> "none",
             size |-> NoSize, sampled |-> << >>, bindings |-> << >>,
             camera |-> NoBuffer ]

----------------------------------------------------------------------------
(* main: the event loop and the Viewport resource                           *)

\* The window main creates, and any other window of the process.
WindowIds == {"window", "other"}

\* The events winit hands to the closure: those main matches on, one
\* WindowEvent and one other event it does not match on.
Event(kind, window_id, size) ==
    [kind |-> kind, window_id |-> window_id, size |-> size]

Events ==
    { Event("RedrawRequested", w, NoSize) : w \in WindowIds }
    \cup { Event("MainEventsCleared", "none", NoSize),
           Event("DeviceEvent", "none", NoSize) }
    \cup { Event(k, w, NoSize) : k \in {"CloseRequested", "Focused"},
                                 w \in WindowIds }
    \cup { Event(k, w, size) : k \in {"Resized", "ScaleFactorChanged"},
                               w \in WindowIds, size \in Sizes }

\* A variant of the match that forgets the window_id guard of the draw arm.
event_handler_AnyWindow(event) ==
    CASE event.kind = "RedrawRequested" -> "render"
      [] event.kind = "MainEventsCleared" -> "request_redraw"
      [] /\ event.kind \in {"Resized", "ScaleFactorChanged"}
         /\ event.window_id = "window" -> "set_size"
      [] /\ event.kind = "CloseRequested"
         /\ event.window_id = "window" -> "exit"
      [] OTHER -> "none"

\* The match of the event loop closure: the arm an event is handled by.
event_handler(event) ==
    CASE /\ event.kind = "RedrawRequested"
         /\ event.window_id = "window" -> "render"
      [] event.kind = "MainEventsCleared" -> "request_redraw"
      [] /\ event.kind \in {"Resized", "ScaleFactorChanged"}
         /\ event.window_id = "window" -> "set_size"
      [] /\ event.kind = "CloseRequested"
         /\ event.window_id = "window" -> "exit"
      [] OTHER -> "none"

\* A variant of Viewport::set_size that stores whatever size it is given.
Viewport_set_size_Unchecked(self, width, height) ==
    [ width |-> width, height |-> height, changed |-> TRUE ]

\* Viewport::set_size: a size with a zero axis is ignored; the access through
\* Mut<Viewport> marks the resource changed.
Viewport_set_size(self, width, height) ==
    IF width > 0 /\ height > 0
    THEN [ width |-> width, height |-> height, changed |-> TRUE ]
    ELSE [ self EXCEPT !.changed = TRUE ]

\* A variant of the frame's resize step that never applies the viewport.
apply_viewport_Never(context, vp) == context

\* The frame applies a pending resize: a changed viewport is read once and
\* the surface is reconfigured to it before any pass runs.
apply_viewport(context, vp) ==
    IF vp.changed
    THEN resize(context, [width |-> vp.width, height |-> vp.height])
    ELSE context

\* renderer::init: the Viewport resource holds the window's size.
NewViewport(size) ==
    [ width |-> size.width, height |-> size.height, changed |-> FALSE ]

SizeOf(r) == [width |-> r.width, height |-> r.height]

----------------------------------------------------------------------------
(* Cameras (src/renderer/camera.rs)                                         *)
(* A matrix is kept as the product that made it: the sequence of its        *)
(* factors, left to right. Each factor names the constructor and its        *)
(* arguments, and says whether it is inverted.                              *)

Mat(m, args) == << [m |-> m, args |-> args, inv |-> FALSE] >>

\* a * b
Mul(a, b) == a \o b

\* a.invert(): the inverses of the factors, in reverse order.
Invert(a) ==
    [ i \in 1..Len(a) |->
        [ a[Len(a) + 1 - i] EXCEPT !.inv = ~a[Len(a) + 1 - i].inv ] ]

OPENGL_TO_WGPU_MATRIX == Mat("OPENGL_TO_WGPU_MATRIX", << >>)

\* cgmath::perspective(fovy, aspect, near, far)
perspective(fovy, aspect, near, far) ==
    Mat("perspective",
        [fovy |-> fovy, aspect |-> aspect, near |-> near, far |-> far])

Deg(x) == << "Deg", x >>

\* The vectors and the numbers the cameras explored are made of.
Vectors == { <<0, 0, 1>>, <<7, -4, 3>> }
Fovys   == { 45, 60 }
Aspects == { 1, 2 }
Znears  == { 1, 2 }
Zfars   == { 50, 100 }

LookAtCameras ==
    [ kind : {"LookAt"}, eye : Vectors, target : {<<0, 0, 0>>},
      up : {<<0, 1, 0>>}, aspect : Aspects, fovy : Fovys,
      znear : Znears, zfar : Zfars ]

PositionRotationCameras ==
    [ kind : {"PositionRotation"}, position : Vectors, rotation : Vectors,
      aspect : Aspects, fovy : Fovys, znear : Znears, zfar : Zfars ]

NoCamera == [ kind |-> "none" ]

\* A variant of LookAtCamera::get_matrix that remaps before it projects.
LookAtCamera_get_matrix_RemapFirst(self) ==
    LET view == Mat("look_at_rh", << self.eye, self.target, self.up >>)
        proj == perspective(Deg(self.fovy), self.aspect, self.zfar, self.znear)
    IN  Mul(Mul(proj, OPENGL_TO_WGPU_MATRIX), view)

\* LookAtCamera::get_matrix
LookAtCamera_get_matrix(self) ==
    LET view == Mat("look_at_rh", << self.eye, self.target, self.up >>)
        proj == perspective(Deg(self.fovy), self.aspect, self.zfar, self.znear)
    IN  Mul(Mul(OPENGL_TO_WGPU_MATRIX, proj), view)

\* PositionRotationCamera::get_matrix
PositionRotationCamera_get_matrix(self) ==
    LET view == Invert(
                  Mul(Mul(Mul(Mat("from_translation", self.position),
                              Mat("from_angle_x", Deg(self.rotation[1]))),
                          Mat("from_angle_y", Deg(self.rotation[2]))),
                      Mat("from_angle_z", Deg(self.rotation[3]))))
        proj == perspective(Deg(self.fovy), self.aspect, self.zfar, self.znear)
    IN  Mul(Mul(OPENGL_TO_WGPU_MATRIX, proj), view)

----------------------------------------------------------------------------
(* The model system's camera uniform (src/renderer/model.rs)                *)

\* The camera ModelRendererResource::from_world writes into camera_buffer
\* when it creates it.
HardCodedCamera ==
    [ kind |-> "PositionRotation",
      position |-> << "6.92", "-4.0", "3.22" >>,
      rotation |-> << "72.4", "0.0", "79.4" >>,
      aspect |-> << SCREEN_WIDTH, SCREEN_HEIGHT >>,
      fovy |-> "39.6", znear |-> "0.001", zfar |-> "1000.0" ]

\* create_buffer_init(contents: camera_uniform) of from_world.
from_world_camera_buffer == PositionRotationCamera_get_matrix(HardCodedCamera)

\* The matrices field.view_proj takes: the one Field::from_gltf gave, and
\* one a later write of the Field gives.
ViewProjs == { Mat("field.view_proj", v) : v \in {"from_gltf", "moved"} }

InitialViewProj == Mat("field.view_proj", "from_gltf")

\* The position of the first op o in ops, 0 if there is none.
IndexOf(o, ops) ==
    IF \E i \in 1..Len(ops) : ops[i] = o
    THEN CHOOSE i \in 1..Len(ops) :
             /\ ops[i] = o
             /\ \A j \in 1..(i - 1) : ops[j] # o
    ELSE 0

\* What the camera buffer holds when the k-th op of the frame executes:
\* queue.write_buffer(camera_buffer, field.view_proj) takes effect before the
\* next submitted command buffer runs.
CameraBufferAt(buffer, ops, value, k) ==
    IF \E i \in 1..(k - 1) : ops[i] = WriteBuffer("camera_buffer")
    THEN value ELSE buffer

\* The camera uniform the Model pass draws with: the buffer bound at group 0
\* when the "Model" command buffer is submitted.
ModelDrawCamera(buffer, ops, value) ==
    IF IndexOf(Submit("Model"), ops) = 0 THEN NoBuffer
    ELSE CameraBufferAt(buffer, ops, value, IndexOf(Submit("Model"), ops))

----------------------------------------------------------------------------
(* Camera extraction from a scene description                               *)
(* (renderer::field::Field::from_gltf, called at src/main.rs:24)            *)

\* The nodes of a scene, numbered in document order: a node comes after its
\* parent and after everything under its earlier siblings.
Nodes == 1..MaxNodes

\* What a node carries: no camera, or a camera of one of the two kinds.
CameraKinds == {"none", "perspective", "orthographic"}

\* The node itself and the nodes above it (0 stands for the scene).
RECURSIVE AncestorsOrSelf(_, _)
AncestorsOrSelf(parent, n) ==
    IF n = 0 THEN {} ELSE {n} \cup AncestorsOrSelf(parent, parent[n])

\* The shapes a scene of MaxNodes nodes in document order can have: the
\* first node is a root, and every later node is a root or a child of the
\* node before it or of one of that node's ancestors.
ParentArrays ==
    { parent \in [ Nodes -> 0..(MaxNodes - 1) ] :
        /\ \A n \in Nodes : parent[n] < n
        /\ \A n \in Nodes \ {1} :
              parent[n] \in {0} \cup AncestorsOrSelf(parent, n - 1) }

Scenes == [ parent : ParentArrays, camera : [ Nodes -> CameraKinds ] ]

NoScene == [ parent |-> << >>, camera |-> << >> ]

\* Option<Matrix4>
None == [ some |-> FALSE ]
Some(m) == [ some |-> TRUE, m |-> m ]

\* from_gltf has not run.
NotExtracted == [ some |-> FALSE, pending |-> TRUE ]

\* The set s in increasing order.
RECURSIVE Sorted(_)
Sorted(s) ==
    IF s = {} THEN << >>
    ELSE LET least == CHOOSE x \in s : \A y \in s : x <= y
         IN  << least >> \o Sorted(s \ {least})

\* node.children(), and scene.nodes() for node 0, in document order.
Children(sc, node) == Sorted({ m \in Nodes : sc.parent[m] = node })

\* node.transform().matrix()
node_transform(node) == Mat("transform", [ node |-> node ])

\* The projection of the camera a node carries: the depth-range remap
\* applied after the perspective matrix of the camera's parameters; the
\* identity for an orthographic camera.
projection(sc, node) ==
    IF sc.camera[node] = "perspective"
    THEN Mul(OPENGL_TO_WGPU_MATRIX, Mat("perspective", [ camera |-> node ]))
    ELSE << >>

RECURSIVE find_camera(_, _, _, _)
RECURSIVE find_camera_in(_, _, _, _)

\* A variant of the walk over siblings that keeps the first camera found.
find_camera_in_KeepFirst(sc, nodes, transform, found) ==
    IF nodes = << >> \/ found.some THEN found
    ELSE find_camera_in(sc, Tail(nodes), transform,
                        find_camera(sc, Head(nodes), transform, found))

\* The visit of one node: its transform is accumulated onto its parent's; a
\* node that carries a camera yields accumulated * projection and ends the
\* search of its branch; otherwise the search goes on in its children.
find_camera(sc, node, parent_transform, found) ==
    LET transform == Mul(parent_transform, node_transform(node))
    IN  IF sc.camera[node] # "none"
        THEN Some(Mul(transform, projection(sc, node)))
        ELSE find_camera_in(sc, Children(sc, node), transform, found)

\* The walk over siblings, in document order: every sibling is visited, and
\* a later match overwrites an earlier one.
find_camera_in(sc, nodes, transform, found) ==
    IF nodes = << >> THEN found
    ELSE find_camera_in(sc, Tail(nodes), transform,
                        find_camera(sc, Head(nodes), transform, found))

\* Field::from_gltf: the view-projection extracted from the scene.
from_gltf(sc) == find_camera_in(sc, Children(sc, 0), << >>, None)

----------------------------------------------------------------------------
(* TextureManager (src/renderer/texture_manager.rs)                         *)

\* The names get_texture is asked for: the one main.rs puts in the manifest,
\* the depth texture main.rs names for the field, and one in no manifest.
Names == {"test_field", "test_field_depth", "missing"}
Paths == {"fields/test_field.png", "fields/test_field_depth.png"}

\* The manifests TextureManager::new is given: the one of main.rs, and one
\* that also lists the depth texture.
Manifests ==
    { ("test_field" :> "fields/test_field.png"),
      ("test_field" :> "fields/test_field.png")
          @@ ("test_field_depth" :> "fields/test_field_depth.png") }

\* What can be at a path: nothing (File::open fails), a file that opens but
\* whose bytes cannot be read, a file whose bytes are no image, an image.
FileKinds == {"absent", "unreadable", "malformed", "image"}

NoTexture == 0

IoOp(o, w) == [op |-> o, what |-> w]

\* image::io::Reader::open(image_path)?.decode()?.to_rgba8(): open only opens
\* the file (an io::Error, converted by From<std::io::Error>); decode reads and
\* decodes it (an image::ImageError, converted by From<image::ImageError>).
LoadImage(fs, image_path) ==
    IF fs[image_path] = "absent"
    THEN [ result |-> "FileReadError", io |-> << IoOp("open", image_path) >> ]
    ELSE IF fs[image_path] # "image"
    THEN [ result |-> "ImageDecodeError",
           io |-> << IoOp("open", image_path), IoOp("decode", image_path) >> ]
    ELSE [ result |-> "Ok",
           io |-> << IoOp("open", image_path), IoOp("decode", image_path) >> ]

\* FieldBackground::new: the image is opened and decoded with unwrap(), then
\* made a texture and uploaded.
FieldBackground_new(fs, image_path) ==
    LET image == LoadImage(fs, image_path)
    IN  IF image.result # "Ok"
        THEN [ result |-> "panic", io |-> image.io ]
        ELSE [ result |-> "Ok",
               io |-> image.io \o << IoOp("create_texture", image_path),
                                     IoOp("write_texture", image_path) >> ]

\* The background image Renderer::new loads.
BackgroundPath == "fields/test_field.png"

NoBackground == [ path |-> "none", file |-> "none", result |-> "none",
                  io |-> << >> ]

\* device.create_texture: a texture no earlier call returned.
NewTexture(gpu) == Cardinality(gpu) + 1

\* The dimensions of the images explored, in pixels.
ImageSizes == { [width |-> 1, height |-> 1], [width |-> 2, height |-> 3] }

\* std::num::NonZeroU32::new: None for 0, Some(n) otherwise.
NonZeroU32_new(n) == IF n = 0 THEN << >> ELSE << n >>

\* image.width(), image.height() of the RgbaImage decoded from image_path.
DecodedImage(image_path) == images[image_path]

\* The wgpu::TextureDescriptor get_texture creates the texture from.
TextureDescriptor(name, image) ==
    [ label |-> name, width |-> image.width, height |-> image.height,
      depth_or_array_layers |-> 1, format |-> "Rgba8UnormSrgb" ]

\* A variant of the upload that counts one byte per pixel.
TextureUpload_OneBytePerPixel(image) ==
    [ bytes_per_row  |-> NonZeroU32_new(1 * image.width),
      rows_per_image |-> NonZeroU32_new(image.height),
      width |-> image.width, height |-> image.height ]

\* The wgpu::ImageDataLayout and the copy extent of queue.write_texture:
\* size_of::<u8>() as u32 * 4 * image.width() bytes a row. The product is a
\* u32; it cannot wrap here, because create_texture has accepted the width
\* just before, which the device limits to max_texture_dimension_2d.
TextureUpload(image) ==
    [ bytes_per_row  |-> NonZeroU32_new(1 * 4 * image.width),
      rows_per_image |-> NonZeroU32_new(image.height),
      width |-> image.width, height |-> image.height ]

\* A variant of the miss path that creates the texture before it opens the
\* file, so a failed load leaves a texture no cache entry holds.
LoadAndInsert_CreateFirst(self, fs, gpu, name, image_path) ==
    LET image == LoadImage(fs, image_path)
        pixels == DecodedImage(image_path)
        texture == NewTexture(gpu)
        create == IoOp("create_texture", TextureDescriptor(name, pixels))
    IN  IF image.result # "Ok"
        THEN [ textures |-> self.textures, gpu |-> gpu \cup {texture},
               result |-> image.result, texture |-> NoTexture,
               io |-> << create >> \o image.io ]
        ELSE [ textures |-> (name :> texture) @@ self.textures,
               gpu |-> gpu \cup {texture},
               result |-> "Ok", texture |-> texture,
               io |-> << create >> \o image.io
                      \o << IoOp("write_texture", TextureUpload(pixels)) >> ]

\* The miss path of get_texture once the manifest has given image_path.
LoadAndInsert(self, fs, gpu, name, image_path) ==
    LET image == LoadImage(fs, image_path)
        pixels == DecodedImage(image_path)
        texture == NewTexture(gpu)
    IN  IF image.result # "Ok"
        THEN [ textures |-> self.textures, gpu |-> gpu,
               result |-> image.result, texture |-> NoTexture,
               io |-> image.io ]
        ELSE [ textures |-> (name :> texture) @@ self.textures,
               gpu |-> gpu \cup {texture},
               result |-> "Ok", texture |-> texture,
               io |-> image.io
                      \o << IoOp("create_texture",
                                 TextureDescriptor(name, pixels)),
                            IoOp("write_texture", TextureUpload(pixels)) >> ]

\* A variant of get_texture without the cache check: it loads on every call.
get_texture_NoCacheCheck(self, fs, gpu, name) ==
    IF name \notin DOMAIN self.manifest
    THEN [ textures |-> self.textures, gpu |-> gpu,
           result |-> "NameNotInManifest", texture |-> NoTexture, io |-> << >> ]
    ELSE LoadAndInsert(self, fs, gpu, name, self.manifest[name])

\* A variant of get_texture that takes a name the manifest lacks for a path
\* and tries to open it.
get_texture_NameAsPath(self, fs, gpu, name) ==
    IF name \in DOMAIN self.textures
    THEN [ textures |-> self.textures, gpu |-> gpu,
           result |-> "Ok", texture |-> self.textures[name], io |-> << >> ]
    ELSE IF name \notin DOMAIN self.manifest
    THEN [ textures |-> self.textures, gpu |-> gpu,
           result |-> "FileReadError", texture |-> NoTexture,
           io |-> << IoOp("open", name) >> ]
    ELSE LoadAndInsert(self, fs, gpu, name, self.manifest[name])

\* A variant of get_texture that caches a placeholder texture for a name the
\* manifest lacks.
get_texture_Placeholder(self, fs, gpu, name) ==
    IF name \in DOMAIN self.textures
    THEN [ textures |-> self.textures, gpu |-> gpu,
           result |-> "Ok", texture |-> self.textures[name], io |-> << >> ]
    ELSE IF name \notin DOMAIN self.manifest
    THEN [ textures |-> (name :> NewTexture(gpu)) @@ self.textures,
           gpu |-> gpu \cup {NewTexture(gpu)},
           result |-> "NameNotInManifest", texture |-> NoTexture,
           io |-> << IoOp("create_texture", name) >> ]
    ELSE LoadAndInsert(self, fs, gpu, name, self.manifest[name])

\* A variant of get_texture that inserts the cache entry before it loads, so
\* a failed load leaves an entry behind.
get_texture_InsertFirst(self, fs, gpu, name) ==
    IF name \in DOMAIN self.textures
    THEN [ textures |-> self.textures, gpu |-> gpu,
           result |-> "Ok", texture |-> self.textures[name], io |-> << >> ]
    ELSE IF name \notin DOMAIN self.manifest
    THEN [ textures |-> self.textures, gpu |-> gpu,
           result |-> "NameNotInManifest", texture |-> NoTexture, io |-> << >> ]
    ELSE LET r == LoadAndInsert(self, fs, gpu, name, self.manifest[name])
         IN  IF r.result = "Ok" THEN r
             ELSE [ r EXCEPT !.textures = (name :> NoTexture) @@ self.textures ]

\* A variant of get_texture whose insert replaces the map by the new entry.
get_texture_Evict(self, fs, gpu, name) ==
    IF name \in DOMAIN self.textures
    THEN [ textures |-> self.textures, gpu |-> gpu,
           result |-> "Ok", texture |-> self.textures[name], io |-> << >> ]
    ELSE IF name \notin DOMAIN self.manifest
    THEN [ textures |-> self.textures, gpu |-> gpu,
           result |-> "NameNotInManifest", texture |-> NoTexture, io |-> << >> ]
    ELSE LET r == LoadAndInsert(self, fs, gpu, name, self.manifest[name])
         IN  IF r.result # "Ok" THEN r
             ELSE [ r EXCEPT !.textures = (name :> r.texture) ]

\* A variant of get_texture that reloads on a hit: the cached texture is
\* replaced by a fresh one.
get_texture_Reload(self, fs, gpu, name) ==
    IF name \notin DOMAIN self.manifest
    THEN [ textures |-> self.textures, gpu |-> gpu,
           result |-> "NameNotInManifest", texture |-> NoTexture, io |-> << >> ]
    ELSE LET r == LoadAndInsert(self, fs, gpu, name, self.manifest[name])
         IN  IF r.result = "Ok" \/ name \notin DOMAIN self.textures THEN r
             ELSE [ textures |-> self.textures, gpu |-> gpu,
                    result |-> "Ok", texture |-> self.textures[name],
                    io |-> r.io ]

\* TextureManager::get_texture: self is [manifest, textures], fs the file
\* system, gpu the textures the device has made. The cache first, then the
\* manifest, then the load.
get_texture(self, fs, gpu, name) ==
    IF name \in DOMAIN self.textures
    THEN [ textures |-> self.textures, gpu |-> gpu,
           result |-> "Ok", texture |-> self.textures[name], io |-> << >> ]
    ELSE IF name \notin DOMAIN self.manifest
    THEN [ textures |-> self.textures, gpu |-> gpu,
           result |-> "NameNotInManifest", texture |-> NoTexture, io |-> << >> ]
    ELSE LoadAndInsert(self, fs, gpu, name, self.manifest[name])

NoCall == [ name |-> "none", cached |-> FALSE, okBefore |-> 0, file |-> "none",
            result |-> "none", texture |-> NoTexture, io |-> << >> ]

NoStats == [ n \in Names |->
               [ ok |-> 0, failed |-> 0, decoded |-> 0, created |-> 0,
                 returned |-> {} ] ]

\* TextureManager::new: the manifest as given, no texture loaded.
TexturesIdle ==
    /\ manifest = ("test_field" :> "fields/test_field.png")
    /\ textures = << >>
    /\ files = [ p \in Paths |-> "image" ]
    /\ images = [ p \in Paths |-> [width |-> 2, height |-> 3] ]
    /\ gpuTextures = {}
    /\ calls = 0
    /\ last = NoCall
    /\ stats = NoStats
    /\ field_background = NoBackground

----------------------------------------------------------------------------
(* Spec: the GPU context and the frame                                      *)

\* No camera matrix asked for.
CameraIdle ==
    /\ camera = NoCamera
    /\ camera_matrix = << >>
    /\ scene = NoScene
    /\ from_gltf_result = NotExtracted
    /\ view_proj = InitialViewProj
    /\ camera_buffer = NoBuffer

\* The event loop before its first event.
MainIdle ==
    /\ viewport = NewViewport(startupSize)
    /\ control_flow = "Poll"
    /\ redraw_requested = FALSE
    /\ sizeEvents = << >>
    /\ redrawEvents = 0
    /\ clearedEvents = FALSE
    /\ closeEvents = FALSE

Init ==
    /\ startupSize \in StartupSizes
    /\ surface_config = NewSurfaceConfig(startupSize)
    /\ configureCalls = 1
    /\ resizeLog = << >>
    /\ frames = 0
    /\ lastFrame = NoFrame
    /\ fieldChanged = TRUE
    /\ panicked = FALSE
    /\ resources = [ s \in LocalResources |-> NoResource ]
    /\ post_process_texture = << >>
    /\ intermediate_target = PostProcessRenderer_new_texture
    /\ TexturesIdle
    /\ MainIdle
    /\ CameraIdle

\* A call of Renderer::resize with any size.
Resize ==
    /\ ~panicked
    /\ Len(resizeLog) < MaxResizes
    /\ \E new_size \in Sizes :
         LET r == resize([surface_config |-> surface_config,
                          configureCalls |-> configureCalls,
                          intermediate_target |-> intermediate_target],
                         new_size)
         IN  /\ surface_config' = r.surface_config
             /\ configureCalls' = r.configureCalls
             /\ intermediate_target' = r.intermediate_target
             /\ resizeLog' = Append(resizeLog, new_size)
    /\ UNCHANGED <<startupSize, frames, lastFrame, fieldChanged, panicked,
                   resources, post_process_texture>>
    /\ UNCHANGED textureVars
    /\ UNCHANGED mainVars
    /\ UNCHANGED cameraVars

\* A call of Renderer::render.
RendererRender ==
    /\ ~panicked
    /\ frames < MaxFrames
    /\ \E acquired \in AcquireResults :
         LET r == Renderer_render(acquired)
             frame == frames + 1
         IN  /\ lastFrame' = [ driver |-> "Renderer", ops |-> r.ops,
                               result |-> r.result,
                               size |-> SizeOf(surface_config),
                               sampled |-> Sampled(post_process_texture,
                                                   r.ops, frame),
                               bindings |-> Bindings(r.ops,
                                   Renderer_new_pipelines(
                                       NewSurfaceConfig(startupSize)),
                                   surface_config),
                               camera |-> NoBuffer ]
             /\ post_process_texture' =
                   TargetAfter(post_process_texture, r.ops, frame, Len(r.ops))
    /\ frames' = frames + 1
    /\ UNCHANGED <<surface_config, configureCalls, startupSize, resizeLog,
                   fieldChanged, panicked, resources, intermediate_target>>
    /\ UNCHANGED textureVars
    /\ UNCHANGED mainVars
    /\ UNCHANGED cameraVars

\* History of the events delivered to the closure, whatever arm took them.
Delivered(event) ==
    /\ redrawEvents' =
          redrawEvents + (IF /\ event.kind = "RedrawRequested"
                             /\ event.window_id = "window" THEN 1 ELSE 0)
    /\ sizeEvents' =
          IF /\ event.kind \in {"Resized", "ScaleFactorChanged"}
             /\ event.window_id = "window"
          THEN Append(sizeEvents, event.size) ELSE sizeEvents
    /\ clearedEvents' =
          IF event.kind = "MainEventsCleared" THEN TRUE
          ELSE IF /\ event.kind = "RedrawRequested"
                  /\ event.window_id = "window" THEN FALSE
          ELSE clearedEvents
    /\ closeEvents' =
          (closeEvents \/ (/\ event.kind = "CloseRequested"
                            /\ event.window_id = "window"))

\* Event::RedrawRequested in main: render_schedule.run(&mut world). The frame
\* first applies a pending resize, then runs the systems, each with its
\* Local<..> resource.
RedrawRequested ==
    /\ ~panicked
    /\ control_flow # "Exit"
    /\ frames < MaxFrames
    /\ \E event \in Events, acquired \in AcquireResults :
         /\ event_handler(event) = "render"
         /\ LET context == apply_viewport(
                               [surface_config |-> surface_config,
                                configureCalls |-> configureCalls,
                                intermediate_target |-> intermediate_target],
                               viewport)
                r == render_schedule_run(fieldChanged, acquired)
                frame == frames + 1
                locals == [ s \in LocalResources |->
                              Local_get(resources[s], s, context, frame) ]
                pipelines ==
                    [ Background  |-> PipelineTarget("field_background",
                                                     context),
                      Model       |-> locals["model"].bundle.target_format,
                      PostProcess |->
                          locals["post_process"].bundle.target_format ]
                buffer ==
                    IF locals["model"].bundle.built_in_frame = frame
                    THEN from_world_camera_buffer ELSE camera_buffer
            IN  /\ surface_config' = context.surface_config
                /\ configureCalls' = context.configureCalls
                /\ intermediate_target' = context.intermediate_target
                /\ lastFrame' = [ driver |-> "schedule", ops |-> r.ops,
                                  result |-> IF r.panic THEN "panic" ELSE "Ok",
                                  size |-> SizeOf(context.surface_config),
                                  sampled |-> Sampled(post_process_texture,
                                                      r.ops, frame),
                                  bindings |-> Bindings(r.ops, pipelines,
                                      context.surface_config),
                                  camera |-> ModelDrawCamera(buffer, r.ops,
                                                             view_proj) ]
                /\ camera_buffer' =
                      CameraBufferAt(buffer, r.ops, view_proj, Len(r.ops) + 1)
                /\ resources' = locals
                /\ post_process_texture' =
                      TargetAfter(post_process_texture, r.ops, frame,
                                  Len(r.ops))
                /\ panicked' = r.panic
                /\ fieldChanged' =
                      IF "model" \in r.ran THEN FALSE ELSE fieldChanged
         /\ Delivered(event)
    /\ viewport' = [viewport EXCEPT !.changed = FALSE]
    /\ redraw_requested' = FALSE
    /\ frames' = frames + 1
    /\ UNCHANGED <<startupSize, resizeLog, control_flow>>
    /\ UNCHANGED textureVars
    /\ UNCHANGED <<camera, camera_matrix, scene, from_gltf_result, view_proj>>

\* Something outside the render stage writes the Field resource (a new
\* camera): the model system will see field.is_changed().
FieldMutated ==
    /\ ~panicked
    /\ control_flow # "Exit"
    /\ ~fieldChanged
    /\ fieldChanged' = TRUE
    /\ view_proj' \in ViewProjs
    /\ UNCHANGED <<surface_config, configureCalls, startupSize, resizeLog,
                   frames, lastFrame, panicked, resources,
                   post_process_texture, intermediate_target>>
    /\ UNCHANGED textureVars
    /\ UNCHANGED mainVars
    /\ UNCHANGED <<camera, camera_matrix, scene, from_gltf_result,
                   camera_buffer>>

Next == Resize \/ RendererRender \/ RedrawRequested \/ FieldMutated

Spec == Init /\ [][Next]_vars

----------------------------------------------------------------------------
(* Claims about the GPU context and the frame (checked under Spec)          *)

Degenerate(size) == size.width = 0 \/ size.height = 0

\* The size a history of resize calls should leave: that of the most recent
\* call with both axes positive, or the startup size.
RECURSIVE LastNonDegenerate(_, _)
LastNonDegenerate(log, startup) ==
    IF log = << >> THEN startup
    ELSE IF ~Degenerate(Last(log)) THEN Last(log)
    ELSE LastNonDegenerate(SubSeq(log, 1, Len(log) - 1), startup)

\* C1: after any sequence of resize calls, degenerate and non-degenerate
\* mixed, the stored surface configuration size is that of the most recent
\* call with w > 0 and h > 0, or the startup size if there was none.
C1_StoredSizeIsLastNonDegenerate ==
    LET want == LastNonDegenerate(resizeLog, startupSize)
    IN  /\ surface_config.width = want.width
        /\ surface_config.height = want.height

\* C1 witness: a non-degenerate resize to a new size, then a degenerate one.
C1_Witness ==
    /\ Len(resizeLog) >= 2
    /\ Degenerate(Last(resizeLog))
    /\ ~Degenerate(resizeLog[Len(resizeLog) - 1])
    /\ resizeLog[Len(resizeLog) - 1] # startupSize

\* C2: a resize call with width = 0 or height = 0 is a no-op: the stored
\* surface configuration is unchanged, the surface is not reconfigured, and
\* nothing fails (no panic; resize returns no value).
C2_DegenerateResizeIsNoOp ==
    [][ ( /\ Len(resizeLog') = Len(resizeLog) + 1
          /\ Degenerate(Last(resizeLog')) )
        => ( /\ surface_config' = surface_config
             /\ configureCalls' = configureCalls
             /\ panicked' = panicked
             /\ ~panicked' ) ]_vars

\* C2 witness: a degenerate resize was the last call, on one axis only, after
\* the configuration had moved away from the startup size.
C2_Witness ==
    /\ resizeLog # << >>
    /\ Last(resizeLog).width = 0
    /\ Last(resizeLog).height > 0
    /\ configureCalls = Len(resizeLog)
    /\ surface_config.width # startupSize.width

\* The place of an operation in the documented frame order; 0 for the
\* operations the order does not speak of.
Rank(o) ==
    CASE o = Submit("Background")  -> 1
      [] o = Submit("Model")       -> 2
      [] o = Submit("PostProcess") -> 3
      [] o = Present               -> 4
      [] OTHER                     -> 0

Occurs(o, ops) == \E i \in 1..Len(ops) : ops[i] = o

GpuOps == {"submit", "write_buffer", "write_texture", "present"}

\* C10: present is the last GPU operation of a frame: nothing is submitted
\* and no GPU write is issued after it within the frame.
C10_PresentIsLast ==
    \A i, j \in 1..Len(lastFrame.ops) :
        (lastFrame.ops[i] = Present /\ i < j)
            => lastFrame.ops[j].op \notin GpuOps

\* C10 witness: a frame of Renderer::render that presented, after an earlier
\* frame.
C10_Witness ==
    /\ lastFrame.driver = "Renderer"
    /\ Occurs(Present, lastFrame.ops)
    /\ frames >= 2

\* The frame's surface image acquisition failed with one of errs.
AcquireFailed(frame, errs) == \E e \in errs : Occurs(Acquire(e), frame.ops)

\* C11: when acquiring the surface image fails with Lost or Outdated, the
\* process does not panic: on every path that acquires, the failure is a
\* value. (Violated: post_process::render unwraps the acquisition.)
C11_AcquireFailureIsAValue ==
    AcquireFailed(lastFrame, {"Lost", "Outdated"})
        => /\ ~panicked
           /\ lastFrame.result # "panic"

\* C12: when acquisition fails in a frame, the frame is skipped: no
\* post-process draw is submitted, nothing is presented, the failure is what
\* the frame render returns to its caller, and the process lives on so that
\* the next redraw acquires again. (Violated on the render schedule, by the
\* unwrap of C11.)
C12_FailedAcquireSkipsFrame ==
    \A e \in AcquireResults \ {"Ok"} :
        Occurs(Acquire(e), lastFrame.ops)
            => /\ ~Occurs(Submit("PostProcess"), lastFrame.ops)
               /\ ~Occurs(Present, lastFrame.ops)
               /\ lastFrame.result = e
               /\ ~panicked

\* C15: in every frame the Background pass clears the intermediate target
\* before drawing and the Model pass loads it, so what the Post-Process pass
\* samples is exactly this frame's background with this frame's model on
\* top, and nothing drawn in an earlier frame. (Renderer::render has no
\* Model pass: there it is this frame's background alone.)
C15_SampledIsThisFrame ==
    Occurs(Submit("PostProcess"), lastFrame.ops) =>
        /\ lastFrame.driver = "schedule" =>
               lastFrame.sampled = << Drawn("Background", frames),
                                      Drawn("Model", frames) >>
        /\ lastFrame.driver = "Renderer" =>
               lastFrame.sampled = << Drawn("Background", frames) >>

\* C15 witness: the post-process draw of a second frame of the render
\* schedule, the target still holding that frame's draws.
C15_Witness ==
    /\ lastFrame.driver = "schedule"
    /\ frames = 2
    /\ Occurs(Submit("PostProcess"), lastFrame.ops)
    /\ Len(post_process_texture) = 2

\* C16: the Model pass writes the camera uniform buffer in a frame only if
\* the field resource has changed since the Model pass last ran; in a frame
\* where it has not changed, no camera buffer write is issued.
C16_CameraWrittenOnlyOnChange ==
    [][ ( /\ frames' = frames + 1
          /\ Occurs(WriteBuffer("camera_buffer"), lastFrame'.ops) )
        => fieldChanged ]_vars

\* C16 witness: a later frame whose Model pass ran without a camera write,
\* the field having changed before an earlier frame only.
C16_Witness ==
    /\ frames >= 2
    /\ lastFrame.driver = "schedule"
    /\ Occurs(Submit("Model"), lastFrame.ops)
    /\ ~Occurs(WriteBuffer("camera_buffer"), lastFrame.ops)
    /\ ~fieldChanged

\* C21: every pass renders into an attachment whose format equals its
\* pipeline's colour target format: the Background and Model pipelines
\* target the intermediate texture's format and are bound to the
\* intermediate target only, the Post-Process pipeline targets the surface
\* format and is bound to the surface image only.
C21_PipelineMatchesAttachment ==
    \A i \in 1..Len(lastFrame.bindings) :
        LET b == lastFrame.bindings[i]
        IN  /\ b.pipeline_format = b.attachment_format
            /\ b.pass \in {"Background", "Model"} =>
                   /\ b.attachment = "post_process_texture"
                   /\ b.pipeline_format = PostProcessTextureFormat
            /\ b.pass = "PostProcess" =>
                   /\ b.attachment = "surface"
                   /\ b.pipeline_format = surface_config.format

\* C21 witness: a frame of the render schedule drew all three passes after
\* the surface had been resized.
C21_Witness ==
    /\ lastFrame.driver = "schedule"
    /\ Len(lastFrame.bindings) = 3
    /\ resizeLog # << >>
    /\ SizeOf(surface_config) # startupSize

C28_ModelDrawsWithFieldCamera ==
    [][ /\ frames' # frames
        /\ lastFrame'.driver = "schedule"
        /\ Occurs(Submit("Model"), lastFrame'.ops)
        => /\ lastFrame'.camera = view_proj
           /\ camera_buffer' = view_proj ]_vars

\* C28 witness: a frame after the one that built the bundle has drawn the
\* Model pass with a matrix the field was given after startup.
C28_Witness ==
    /\ lastFrame.driver = "schedule"
    /\ Occurs(Submit("Model"), lastFrame.ops)
    /\ resources["model"].bundle.built_in_frame < frames
    /\ lastFrame.camera = Mat("field.view_proj", "moved")

\* C29: the intermediate render target is created once, SCREEN_WIDTH x
\* SCREEN_HEIGHT, and never recreated or resized: whatever resizes were
\* applied, its dimensions are those it was created with, while the surface
\* configuration follows the window's size.
C29_IntermediateTargetFixed ==
    /\ intermediate_target.width = SCREEN_WIDTH
    /\ intermediate_target.height = SCREEN_HEIGHT
    /\ intermediate_target.created = 1
    /\ SizeOf(surface_config) = LastNonDegenerate(resizeLog, startupSize)

\* C29 witness: two resizes were applied, the last to a size that is neither
\* the startup size nor the target's, and a frame was rendered after them.
C29_Witness ==
    /\ configureCalls = 3
    /\ SizeOf(surface_config) # startupSize
    /\ surface_config.width # intermediate_target.width
    /\ lastFrame.driver = "Renderer"
    /\ lastFrame.size = SizeOf(surface_config)

\* C20: each pass's resource bundle (pipeline, bind-group layout, static
\* buffers, sampler) is constructed exactly once, on the first frame that
\* runs the pass, and the same bundle is used unchanged by every later
\* frame: no render call reconstructs or replaces it.
C20_BundleBuiltOnce ==
    [][ \A s \in LocalResources :
          /\ resources[s].bundle # NoBundle => resources'[s] = resources[s]
          /\ resources'[s].constructed <= 1
          /\ ( /\ frames' = frames + 1
               /\ lastFrame'.driver = "schedule" )
                 => /\ resources'[s].constructed = 1
                    /\ resources[s].bundle = NoBundle
                          => resources'[s].bundle.built_in_frame = frames' ]_vars

\* C20 witness: two frames of the render schedule have run, the bundles
\* still those the first of them built.
C20_Witness ==
    /\ frames = 2
    /\ lastFrame.driver = "schedule"
    /\ \A s \in LocalResources :
         /\ resources[s].bundle.built_in_frame = 1
         /\ resources[s].constructed = 1

----------------------------------------------------------------------------
(* SpecTextures: the texture manager and the files it loads from            *)

RendererIdle ==
    /\ startupSize = [width |-> 800, height |-> 600]
    /\ surface_config = NewSurfaceConfig(startupSize)
    /\ configureCalls = 1
    /\ resizeLog = << >>
    /\ frames = 0
    /\ lastFrame = NoFrame
    /\ fieldChanged = TRUE
    /\ panicked = FALSE
    /\ resources = [ s \in LocalResources |-> NoResource ]
    /\ post_process_texture = << >>
    /\ intermediate_target = PostProcessRenderer_new_texture
    /\ MainIdle
    /\ CameraIdle

InitTextures ==
    /\ manifest \in Manifests
    /\ textures = << >>
    /\ files \in [Paths -> FileKinds]
    /\ images \in [Paths -> ImageSizes]
    /\ gpuTextures = {}
    /\ calls = 0
    /\ last = NoCall
    /\ stats = NoStats
    /\ field_background = NoBackground
    /\ RendererIdle

CountOps(o, io) == Cardinality({ i \in 1..Len(io) : io[i].op = o })

\* A call of get_texture with any name; last and stats record what it did.
GetTexture ==
    /\ ~panicked
    /\ calls < MaxCalls
    /\ \E name \in Names :
         LET r == get_texture([manifest |-> manifest, textures |-> textures],
                              files, gpuTextures, name)
             ok == r.result = "Ok"
         IN  /\ textures' = r.textures
             /\ gpuTextures' = r.gpu
             /\ last' = [ name     |-> name,
                          cached   |-> name \in DOMAIN textures,
                          okBefore |-> stats[name].ok,
                          file     |-> IF name \in DOMAIN manifest
                                       THEN files[manifest[name]] ELSE "none",
                          result   |-> r.result,
                          texture  |-> r.texture,
                          io       |-> r.io ]
             /\ stats' = [ stats EXCEPT ![name] =
                   [ ok       |-> @.ok + (IF ok THEN 1 ELSE 0),
                     failed   |-> @.failed + (IF ok THEN 0 ELSE 1),
                     decoded  |-> @.decoded +
                                  (IF ok THEN CountOps("decode", r.io) ELSE 0),
                     created  |-> @.created + CountOps("create_texture", r.io),
                     returned |-> IF ok THEN @.returned \cup {r.texture}
                                  ELSE @.returned ] ]
    /\ calls' = calls + 1
    /\ UNCHANGED <<manifest, files, images, field_background>>
    /\ UNCHANGED rendererVars
    /\ UNCHANGED mainVars
    /\ UNCHANGED cameraVars

\* The world outside the program changes what is at a path (a file is
\* written, repaired, removed).
FileChanges ==
    /\ ~panicked
    /\ \E p \in Paths, k \in FileKinds :
         /\ files[p] # k
         /\ files' = [ files EXCEPT ![p] = k ]
    /\ UNCHANGED <<manifest, textures, images, gpuTextures, calls, last, stats,
                   field_background>>
    /\ UNCHANGED rendererVars
    /\ UNCHANGED mainVars
    /\ UNCHANGED cameraVars

\* The call of FieldBackground::new (Renderer::new makes it, once), with the
\* path Renderer::new gives it.
FieldBackgroundNew ==
    /\ ~panicked
    /\ field_background = NoBackground
    /\ \E image_path \in {BackgroundPath} :
         LET r == FieldBackground_new(files, image_path)
         IN  /\ field_background' = [ path |-> image_path,
                                      file |-> files[image_path],
                                      result |-> r.result, io |-> r.io ]
             /\ panicked' = (r.result = "panic")
    /\ UNCHANGED <<manifest, textures, files, images, gpuTextures, calls, last,
                   stats>>
    /\ UNCHANGED <<surface_config, configureCalls, startupSize, resizeLog,
                   frames, lastFrame, fieldChanged, resources,
                   post_process_texture, intermediate_target>>
    /\ UNCHANGED mainVars
    /\ UNCHANGED cameraVars

NextTextures == GetTexture \/ FileChanges \/ FieldBackgroundNew

SpecTextures == InitTextures /\ [][NextTextures]_vars

----------------------------------------------------------------------------
(* Claims about the texture manager (checked under SpecTextures)            *)

LoadFailures == {"FileReadError", "ImageDecodeError"}
Called == last.name # "none"

\* C3: for a name whose file decodes, two calls of get_texture (with any
\* other calls in between) make exactly one decode and one GPU texture
\* creation for that name; every call after the first successful one returns
\* the same texture and does no file I/O.
C3_LoadedOnce ==
    /\ \A n \in Names :
         stats[n].ok >= 1 =>
             /\ stats[n].decoded = 1
             /\ stats[n].created = 1
             /\ Cardinality(stats[n].returned) = 1
    /\ (Called /\ last.okBefore >= 1) =>
             /\ last.result = "Ok"
             /\ last.io = << >>
             /\ stats[last.name].returned = {last.texture}

\* C3 witness: a name returned twice, with a call for another name between
\* the two.
C3_Witness ==
    /\ Called
    /\ last.okBefore >= 1
    /\ calls >= 3
    /\ \E n \in Names \ {last.name} : stats[n].ok + stats[n].failed >= 1

\* C4: for a name that is no key of the manifest, every call, after any
\* history of calls, fails with NameNotInManifest and opens no file, decodes
\* nothing and allocates nothing on the GPU.
C4_AbsentNameFailsWithoutIo ==
    (Called /\ last.name \notin DOMAIN manifest) =>
        /\ last.result = "NameNotInManifest"
        /\ last.texture = NoTexture
        /\ last.io = << >>
        /\ stats[last.name].created = 0
        /\ stats[last.name].ok = 0

\* C4 witness: the absent name asked for again, after a texture was loaded.
C4_Witness ==
    /\ Called
    /\ last.name \notin DOMAIN manifest
    /\ stats[last.name].failed >= 2
    /\ textures # << >>

\* C5: a call that fails because the file cannot be opened or decoded
\* inserts no cache entry, and a later call for the same name loads again and
\* succeeds if the file has become readable.
C5_FailedLoadIsRetried ==
    [][ calls' = calls + 1 =>
          LET n == last'.name
          IN  /\ last'.result \in LoadFailures => n \notin DOMAIN textures'
              /\ ( /\ stats[n].failed >= 1
                   /\ n \in DOMAIN manifest
                   /\ files[manifest[n]] = "image" )
                 => /\ last'.result = "Ok"
                    /\ n \in DOMAIN textures'
                    /\ (stats[n].ok = 0 =>
                           \E i \in 1..Len(last'.io) : last'.io[i].op = "open")
      ]_vars

\* C5 witness: a name whose load failed and which is now in the cache.
C5_Witness ==
    \E n \in DOMAIN textures :
        /\ stats[n].failed >= 1
        /\ last.name = n
        /\ ~last.cached

\* C6: every key of the texture cache is a key of the manifest.
C6_CacheKeysInManifest ==
    DOMAIN textures \subseteq DOMAIN manifest

\* C6 witness: a texture is cached and a name outside the manifest was asked
\* for after that.
C6_Witness ==
    /\ textures # << >>
    /\ Called
    /\ last.name \notin DOMAIN manifest
    /\ DOMAIN manifest # DOMAIN textures

\* C7: the cache never evicts: a name in the cache stays in it, bound to the
\* same texture, whatever calls follow.
C7_NoEviction ==
    [][ \A n \in DOMAIN textures :
            /\ n \in DOMAIN textures'
            /\ textures'[n] = textures[n] ]_vars

\* C7 witness: two textures are cached and the last call failed.
C7_Witness ==
    /\ Cardinality(DOMAIN textures) = 2
    /\ Called
    /\ last.result # "Ok"

\* C26: every GPU texture get_texture creates is in the cache when the call
\* returns: the textures created are exactly the textures the cache holds,
\* one per entry, and a call that fails creates no GPU texture.
C26_CreatedTexturesAreCached ==
    /\ gpuTextures = { textures[n] : n \in DOMAIN textures }
    /\ Cardinality(gpuTextures) = Cardinality(DOMAIN textures)
    /\ (Called /\ last.result # "Ok") =>
          CountOps("create_texture", last.io) = 0

\* C26 witness: with one texture created and cached, a call got as far as
\* decoding its file and failed.
C26_Witness ==
    /\ Cardinality(gpuTextures) = 1
    /\ Called
    /\ last.result = "ImageDecodeError"

\* C27: get_texture never changes the manifest; it leaves the cache as it
\* was on a hit and on an error; a successful miss adds the one entry of the
\* name asked for and changes no other entry.
C27_OnlyTheMissedNameIsAdded ==
    [][ calls' # calls =>
          /\ manifest' = manifest
          /\ IF last'.cached \/ last'.result # "Ok"
             THEN textures' = textures
             ELSE /\ last'.name \notin DOMAIN textures
                  /\ DOMAIN textures' = DOMAIN textures \cup {last'.name}
                  /\ \A n \in DOMAIN textures : textures'[n] = textures[n] ]_vars

\* C27 witness: a successful miss has added a second entry to the cache, and
\* a hit followed it.
C27_Witness ==
    /\ Cardinality(DOMAIN textures) = 2
    /\ Called
    /\ last.cached
    /\ stats[last.name].ok >= 2

\* C8: each failure cause has its own error value: a name absent from the
\* manifest gives NameNotInManifest, a file that cannot be opened or read
\* gives FileReadError, an image that cannot be decoded gives
\* ImageDecodeError.
C8_DistinctErrorPerCause ==
    (Called /\ ~last.cached) =>
        /\ last.name \notin DOMAIN manifest <=> last.result = "NameNotInManifest"
        /\ last.file \in {"absent", "unreadable"} <=> last.result = "FileReadError"
        /\ last.file = "malformed" <=> last.result = "ImageDecodeError"

\* The operations of kind o among io, in order.
OpsOf(o, io) == SelectSeq(io, LAMBDA x : x.op = o)

\* C19: on a cache miss that succeeds, get_texture creates a GPU texture
\* whose width and height are those of the decoded image, and uploads the
\* pixels with bytes_per_row = 4 * width and rows_per_image = height, for
\* every decoded image size.
C19_TextureSizedLikeImage ==
    (Called /\ ~last.cached /\ last.result = "Ok") =>
        LET image == images[manifest[last.name]]
            created == OpsOf("create_texture", last.io)
            written == OpsOf("write_texture", last.io)
        IN  /\ Len(created) = 1
            /\ created[1].what.width = image.width
            /\ created[1].what.height = image.height
            /\ Len(written) = 1
            /\ written[1].what.bytes_per_row = << 4 * image.width >>
            /\ written[1].what.rows_per_image = << image.height >>

\* C19 witness: a successful miss on an image that is not square, after a
\* successful miss on an image of another size.
C19_Witness ==
    /\ Called
    /\ ~last.cached
    /\ last.result = "Ok"
    /\ images[manifest[last.name]].width # images[manifest[last.name]].height
    /\ \E n \in DOMAIN textures :
         /\ n # last.name
         /\ images[manifest[n]] # images[manifest[last.name]]

TextureManagerErrors ==
    {"FileReadError", "ImageDecodeError", "NameNotInManifest"}

\* C17: when the background's texture cannot be resolved (the file is
\* absent, unreadable or no image), the failure reaches the caller as an
\* error value and nothing is drawn; the process does not panic. (Violated:
\* FieldBackground::new unwraps the open and the decode.)
C17_BackgroundFailureIsAValue ==
    ( /\ field_background.path # "none"
      /\ field_background.file # "image" )
        => /\ ~panicked
           /\ field_background.result \in TextureManagerErrors
           /\ CountOps("create_texture", field_background.io) = 0

----------------------------------------------------------------------------
(* SpecMain: the event loop of src/main.rs                                  *)

\* Event::MainEventsCleared: window.request_redraw().
MainEventsCleared ==
    /\ ~panicked
    /\ control_flow # "Exit"
    /\ \E event \in Events :
         /\ event_handler(event) = "request_redraw"
         /\ Delivered(event)
    /\ redraw_requested' = TRUE
    /\ UNCHANGED <<viewport, control_flow>>
    /\ UNCHANGED rendererVars
    /\ UNCHANGED textureVars
    /\ UNCHANGED cameraVars

\* WindowEvent::Resized and WindowEvent::ScaleFactorChanged of the window:
\* viewport.set_size(width, height).
WindowResized ==
    /\ ~panicked
    /\ control_flow # "Exit"
    /\ Len(sizeEvents) < MaxResizes
    /\ \E event \in Events :
         /\ event_handler(event) = "set_size"
         /\ viewport' = Viewport_set_size(viewport, event.size.width,
                                          event.size.height)
         /\ Delivered(event)
    /\ UNCHANGED <<control_flow, redraw_requested>>
    /\ UNCHANGED rendererVars
    /\ UNCHANGED textureVars
    /\ UNCHANGED cameraVars

\* WindowEvent::CloseRequested of the window: *control_flow = Exit.
CloseRequested ==
    /\ ~panicked
    /\ control_flow # "Exit"
    /\ \E event \in Events :
         /\ event_handler(event) = "exit"
         /\ Delivered(event)
    /\ control_flow' = "Exit"
    /\ UNCHANGED <<viewport, redraw_requested>>
    /\ UNCHANGED rendererVars
    /\ UNCHANGED textureVars
    /\ UNCHANGED cameraVars

\* Every other event falls to an empty arm.
IgnoredEvent ==
    /\ ~panicked
    /\ control_flow # "Exit"
    /\ \E event \in Events :
         /\ event_handler(event) = "none"
         /\ Delivered(event)
    /\ UNCHANGED <<viewport, control_flow, redraw_requested>>
    /\ UNCHANGED rendererVars
    /\ UNCHANGED textureVars
    /\ UNCHANGED cameraVars

NextMain ==
    \/ RedrawRequested
    \/ MainEventsCleared
    \/ WindowResized
    \/ CloseRequested
    \/ IgnoredEvent

SpecMain == Init /\ [][NextMain]_vars

----------------------------------------------------------------------------
(* Claims about the event loop (checked under SpecMain)                     *)

\* C13: a Resized or ScaleFactorChanged event of the window with a
\* non-degenerate size is applied to the surface configuration before the
\* next surface image acquisition: the image a frame acquires and presents
\* has the dimensions of the most recent non-degenerate resize event (the
\* startup size when there was none).
C13_ResizeAppliedBeforeAcquire ==
    [][ ( /\ frames' = frames + 1
          /\ lastFrame'.driver = "schedule"
          /\ \E a \in AcquireResults : Occurs(Acquire(a), lastFrame'.ops) )
        => ( /\ lastFrame'.size = LastNonDegenerate(sizeEvents, startupSize)
             /\ SizeOf(surface_config') = lastFrame'.size ) ]_vars

\* C13 witness: a frame presented after two resize events, the last of them
\* non-degenerate and of a size the surface did not have before.
C13_Witness ==
    /\ lastFrame.driver = "schedule"
    /\ Occurs(Present, lastFrame.ops)
    /\ Len(sizeEvents) >= 2
    /\ ~viewport.changed
    /\ lastFrame.size = Last(sizeEvents)
    /\ lastFrame.size # startupSize
    /\ lastFrame.size.width # lastFrame.size.height

\* C14: in every reachable state, after startup and any sequence of resize
\* and scale-factor events, the viewport size and the stored surface
\* configuration both have width > 0 and height > 0.
C14_SizesStayPositive ==
    /\ viewport.width > 0
    /\ viewport.height > 0
    /\ surface_config.width > 0
    /\ surface_config.height > 0

\* C14 witness: a degenerate resize event was delivered after a
\* non-degenerate one, and a frame has run since.
C14_Witness ==
    /\ Len(sizeEvents) >= 2
    /\ Degenerate(Last(sizeEvents))
    /\ ~Degenerate(sizeEvents[1])
    /\ frames >= 1
    /\ ~viewport.changed

\* C18: the event loop runs the render schedule exactly once for each
\* RedrawRequested event of its own window and for no other event: every
\* step runs at most one frame, and runs one exactly when it delivers such
\* an event.
C18_OneRenderPerRedraw ==
    [][ /\ frames' \in {frames, frames + 1}
        /\ (frames' = frames + 1) <=> (redrawEvents' = redrawEvents + 1)
        /\ redrawEvents' \in {redrawEvents, redrawEvents + 1} ]_vars

\* C18 witness: two frames have run, and events of other kinds and of
\* another window were delivered in between.
C18_Witness ==
    /\ frames = 2
    /\ redrawEvents = 2
    /\ redraw_requested
    /\ sizeEvents # << >>

\* Every MainEventsCleared event requests a redraw: while a batch of events
\* has ended and no RedrawRequested event has followed, a redraw is requested.
RedrawRequestedAfterEveryBatch == clearedEvents' => redraw_requested'

\* A redraw request is served by a frame that is rendered and presented.
RequestServedByAFrame ==
    (redraw_requested /\ ~redraw_requested') =>
        /\ frames' = frames + 1
        /\ lastFrame'.result = "Ok"
        /\ Occurs(Present, lastFrame'.ops)

\* The control flow becomes Exit only in the step that delivers a
\* CloseRequested event of the window: not in a frame, not in a resize.
ExitOnlyOnCloseRequested ==
    control_flow' # control_flow =>
        /\ control_flow' = "Exit"
        /\ closeEvents' /\ ~closeEvents
        /\ frames' = frames
        /\ sizeEvents' = sizeEvents
        /\ redrawEvents' = redrawEvents

\* C30: every MainEventsCleared requests a redraw, so as long as
\* CloseRequested has not been received a frame is rendered again after
\* every batch of events; and the control flow is set to Exit only by a
\* CloseRequested event of the window, never by a redraw, a resize or an
\* event of another window. (Violated in its second part: a frame whose
\* surface acquisition fails panics in post_process::render, so the request
\* of that batch is served by no rendered frame.)
C30_FrameAfterEveryBatch ==
    [][ /\ RedrawRequestedAfterEveryBatch
        /\ RequestServedByAFrame
        /\ ExitOnlyOnCloseRequested ]_vars

----------------------------------------------------------------------------
(* SpecCamera: get_matrix on every camera explored                          *)

\* The renderer before its first frame, in a window of 800 x 600.
RendererAtStartup ==
    /\ startupSize = [width |-> 800, height |-> 600]
    /\ surface_config = NewSurfaceConfig(startupSize)
    /\ configureCalls = 1
    /\ resizeLog = << >>
    /\ frames = 0
    /\ lastFrame = NoFrame
    /\ fieldChanged = TRUE
    /\ panicked = FALSE
    /\ resources = [ s \in LocalResources |-> NoResource ]
    /\ post_process_texture = << >>
    /\ intermediate_target = PostProcessRenderer_new_texture

InitCamera ==
    /\ camera \in LookAtCameras \cup PositionRotationCameras
    /\ camera_matrix = << >>
    /\ scene = NoScene
    /\ from_gltf_result = NotExtracted
    /\ view_proj = InitialViewProj
    /\ camera_buffer = NoBuffer
    /\ RendererAtStartup
    /\ TexturesIdle
    /\ MainIdle

\* A call of LookAtCamera::get_matrix.
LookAtGetMatrix ==
    /\ camera.kind = "LookAt"
    /\ camera_matrix = << >>
    /\ camera_matrix' = LookAtCamera_get_matrix(camera)
    /\ UNCHANGED <<camera, scene, from_gltf_result, view_proj, camera_buffer>>
    /\ UNCHANGED <<rendererVars, textureVars, mainVars>>

\* A call of PositionRotationCamera::get_matrix.
PositionRotationGetMatrix ==
    /\ camera.kind = "PositionRotation"
    /\ camera_matrix = << >>
    /\ camera_matrix' = PositionRotationCamera_get_matrix(camera)
    /\ UNCHANGED <<camera, scene, from_gltf_result, view_proj, camera_buffer>>
    /\ UNCHANGED <<rendererVars, textureVars, mainVars>>

NextCamera == LookAtGetMatrix \/ PositionRotationGetMatrix

SpecCamera == InitCamera /\ [][NextCamera]_vars

\* The factors of a product from the k-th on.
From(a, k) == SubSeq(a, k, Len(a))

\* The view matrix the position/rotation camera should give: the inverse of
\* translation * rotX * rotY * rotZ, that is rotZ^-1 * rotY^-1 * rotX^-1 *
\* translation^-1.
ExpectedView(c) ==
    IF c.kind = "LookAt"
    THEN << [m |-> "look_at_rh", args |-> << c.eye, c.target, c.up >>,
             inv |-> FALSE] >>
    ELSE << [m |-> "from_angle_z", args |-> Deg(c.rotation[3]), inv |-> TRUE],
            [m |-> "from_angle_y", args |-> Deg(c.rotation[2]), inv |-> TRUE],
            [m |-> "from_angle_x", args |-> Deg(c.rotation[1]), inv |-> TRUE],
            [m |-> "from_translation", args |-> c.position, inv |-> TRUE] >>

\* C23: both get_matrix functions return remap * projection * view: the
\* depth-range remap OPENGL_TO_WGPU_MATRIX is applied after the perspective
\* matrix, which is applied after the view matrix; for the position/rotation
\* camera the view matrix is the inverse of translation * rotX * rotY * rotZ.
C23_RemapProjectionView ==
    camera_matrix # << >> =>
        /\ Len(camera_matrix) >= 3
        /\ camera_matrix[1].m = "OPENGL_TO_WGPU_MATRIX"
        /\ ~camera_matrix[1].inv
        /\ camera_matrix[2].m = "perspective"
        /\ ~camera_matrix[2].inv
        /\ From(camera_matrix, 3) = ExpectedView(camera)

\* C23 witness: the matrix of a position/rotation camera whose three
\* rotation angles differ.
C23_Witness ==
    /\ camera.kind = "PositionRotation"
    /\ camera_matrix # << >>
    /\ camera.rotation[1] # camera.rotation[2]
    /\ camera.rotation[2] # camera.rotation[3]

\* C24: for both cameras the perspective projection is built with the
\* camera's znear as the near plane and its zfar as the far plane, together
\* with fovy in degrees and aspect. (Violated: both get_matrix functions pass
\* zfar where perspective takes near, and znear where it takes far.)
C24_NearIsZnearFarIsZfar ==
    camera_matrix # << >> =>
        LET proj == camera_matrix[2].args
        IN  /\ proj.near = camera.znear
            /\ proj.far = camera.zfar
            /\ proj.fovy = Deg(camera.fovy)
            /\ proj.aspect = camera.aspect

----------------------------------------------------------------------------
(* SpecScene: the camera extraction, on every scene of MaxNodes nodes       *)

InitScene ==
    /\ scene \in Scenes
    /\ from_gltf_result = NotExtracted
    /\ camera = NoCamera
    /\ camera_matrix = << >>
    /\ view_proj = InitialViewProj
    /\ camera_buffer = NoBuffer
    /\ RendererAtStartup
    /\ TexturesIdle
    /\ MainIdle

\* The call of Field::from_gltf (src/main.rs:24).
FromGltf ==
    /\ from_gltf_result = NotExtracted
    /\ from_gltf_result' = from_gltf(scene)
    /\ UNCHANGED <<camera, camera_matrix, scene, view_proj, camera_buffer>>
    /\ UNCHANGED <<rendererVars, textureVars, mainVars>>

NextScene == FromGltf

SpecScene == InitScene /\ [][NextScene]_vars

\* The nodes strictly above a node.
ProperAncestors(sc, n) == AncestorsOrSelf(sc.parent, n) \ {n}

\* The camera nodes the traversal reaches: those with no camera node above
\* them (a camera node ends the search of its branch).
VisitedCameras(sc) ==
    { n \in Nodes :
        /\ sc.camera[n] # "none"
        /\ \A a \in ProperAncestors(sc, n) : sc.camera[a] = "none" }

\* The product of the transforms from the root down to the node.
RECURSIVE AccumulatedTransform(_, _)
AccumulatedTransform(sc, n) ==
    IF n = 0 THEN << >>
    ELSE Mul(AccumulatedTransform(sc, sc.parent[n]), node_transform(n))

\* The node of a non-empty set that comes last in document order.
LastOf(s) == CHOOSE n \in s : \A m \in s : m <= n

\* C25: the camera extraction walks the node tree depth-first in document
\* order, accumulating parent * local transforms; on a scene with several
\* camera nodes it gives accumulated_transform * projection of the camera
\* node visited last, and on a scene with none it finds nothing.
C25_LastCameraWins ==
    from_gltf_result # NotExtracted =>
        IF VisitedCameras(scene) = {}
        THEN from_gltf_result = None
        ELSE LET n == LastOf(VisitedCameras(scene))
             IN  from_gltf_result =
                    Some(Mul(AccumulatedTransform(scene, n),
                             projection(scene, n)))

\* C25 witness: the extraction has run on a scene where two camera nodes
\* are visited, the later one below a node that is not a root's first child.
C25_Witness ==
    /\ from_gltf_result # NotExtracted
    /\ Cardinality(VisitedCameras(scene)) >= 2
    /\ scene.parent[LastOf(VisitedCameras(scene))] # 0
    /\ scene.camera[1] = "none"

====
